---- MODULE Spec2Model ----
(***************************************************************************)
(* Browser client of the LLMAudit application: frontend/login.js (login    *)
(* page) and frontend/app.js (main page).  One browser tab, the            *)
(* localStorage of its origin, the requests in flight to the server and    *)
(* the parts of the DOM the handlers write.                                *)
(*                                                                         *)
(* A JavaScript string is a sequence of chunks: a chunk is a single        *)
(* character, or a literal of the source kept whole (the message texts of  *)
(* the source are Chinese; each is written here as an ASCII literal, with  *)
(* the source line beside it).  null and undefined are the value Null.     *)
(***************************************************************************)
EXTENDS Integers, Sequences, FiniteSets, TLC

\* ------------------------------------------------------------ bounds
\* user events (clicks, page visits) in one run
MaxEvents == 3
\* requests awaiting their response at one time
MaxInFlight == 2
\* characters of a label the server returns
MaxLabelLen == 4
\* characters typed into the threshold input
MaxThresholdLen == 3

\* ------------------------------------------------------------ values
Null == <<"null">>
EmptyStr == <<>>

\* JavaScript truthiness of a string-or-null value: `!v` is true for null,
\* undefined and "".
Truthy(v) == v # Null /\ v # EmptyStr

\* a || b
OrElse(a, b) == IF Truthy(a) THEN a ELSE b

\* White space and line terminators (String.prototype.trim strips both).
Space == " "
LineFeed == "\n"
IsWhiteSpace(c) == c \in {Space, LineFeed}
IsLineTerminator(c) == c = LineFeed

RECURSIVE TrimStart(_)
TrimStart(s) ==
  IF s # <<>> /\ IsWhiteSpace(Head(s)) THEN TrimStart(Tail(s)) ELSE s

RECURSIVE TrimEnd(_)
TrimEnd(s) ==
  IF s # <<>> /\ IsWhiteSpace(s[Len(s)])
  THEN TrimEnd(SubSeq(s, 1, Len(s) - 1))
  ELSE s

\* the field value taken as typed
TrimNone(s) == s

\* String.prototype.trim
Trim(s) == TrimEnd(TrimStart(s))

\* ------------------------------------------------------------ literals
LoginPage == "/login.html"
IndexPage == "/index.html"
BlankPage == "about:blank"

\* login.js:26
MockToken == <<"mock-token">>
\* login.js:10
MsgNeedCredentials == <<"please enter username and password">>
\* login.js:29
MsgLoginOk == <<"login succeeded, redirecting...">>
\* login.js:33
LoginFailedPrefix == <<"login failed: ">>
\* app.js:194
AlertLoginFirst == <<"please log in first!">>
\* app.js:212
GenericChangeError == <<"change failed">>
\* app.js:214
GenericChangeOk == <<"password changed, please log in again">>
\* app.js:221
ChangeFailedPrefix == <<"X change failed: ">>
\* app.js:128
LabelWhenDark == <<"sun: switch theme">>
LabelWhenLight == <<"moon: switch theme">>

Light == <<"light">>
Dark == <<"dark">>

\* what fetch rejects with when the network fails
NetworkErrorText == <<"Failed to fetch">>
\* what resp.json() rejects with on a body that is not JSON
JsonErrorText == <<"Unexpected token < in JSON">>

\* ------------------------------------------------------------ state
VARIABLES
  store,        \* localStorage: key -> string, Null when the key is absent
  page,         \* the document the tab shows
  nav,          \* the navigation the document has asked for, NoNav if none
  guardTimer,   \* app.js:13 timer: "none", "armed" or "fired"
  navTimers,    \* pending login.js:31 timers
  reqs,         \* requests awaiting their response, oldest first
  loginMsg,     \* #loginMsg: text and colour
  alertMsg,     \* text of the latest alert(), Null if none
  dataTheme,    \* data-theme attribute of the document element
  toggleLabel,  \* text of #themeToggle
  progress,     \* text of #progress
  results,      \* children of #results, in order
  events,       \* user events so far
  last          \* the handler step that ran last, with its inputs

vars == <<store, page, nav, guardTimer, navTimers, reqs, loginMsg, alertMsg,
          dataTheme, toggleLabel, progress, results, events, last>>

Keys == {"username", "token", "theme"}

NoNav == [to |-> "", how |-> ""]
Href(target) == [to |-> target, how |-> "href"]
Replace(target) == [to |-> target, how |-> "replace"]

NoMsg == [text |-> EmptyStr, color |-> ""]

\* ClearSession without its third removeItem
ClearSessionKeepTheme(st) ==
  [st EXCEPT !["username"] = Null, !["token"] = Null]

\* the removal without its removeItem("token")
ClearSessionKeepToken(st) ==
  [st EXCEPT !["username"] = Null, !["theme"] = Null]

\* localStorage.removeItem of the three keys (app.js:173-175, 216-218)
ClearSession(st) ==
  [st EXCEPT !["username"] = Null, !["token"] = Null, !["theme"] = Null]

\* A request as fetch sends it.
Request(endpoint, payload) == [ep |-> endpoint, body |-> payload]

\* the i-th request sent once more when it settles
RequeueAt(s, i) == Append(SubSeq(s, 1, i - 1) \o SubSeq(s, i + 1, Len(s)), s[i])

\* sequence s without its i-th element
RemoveAt(s, i) == SubSeq(s, 1, i - 1) \o SubSeq(s, i + 1, Len(s))

\* ------------------------------------------------------------ server answers
\* What a fetch can come back with: the network fails (fetch rejects), or a
\* response arrives with resp.ok telling whether the status is in 200-299,
\* the body text resp.text() gives, and what resp.json() gives: the parsed
\* body, or a rejection when the body is not JSON.
\* a body that is not read as JSON, or cannot be
NoData == [none |-> TRUE]
NetErr ==
  [failed |-> TRUE, ok |-> FALSE, text |-> EmptyStr, json |-> FALSE,
   data |-> NoData]
\* a response whose body is plain text
Plain(isOk, text) ==
  [failed |-> FALSE, ok |-> isOk, text |-> text, json |-> FALSE,
   data |-> NoData]
\* a response whose body is the JSON text of `value`
Json(isOk, value) ==
  [failed |-> FALSE, ok |-> isOk, text |-> <<"{...}">>, json |-> TRUE,
   data |-> value]

ErrorTexts == {<<"denied">>}
\* every answer with a body the handler does not parse
PlainAnswers ==
  {NetErr} \cup {Plain(b, t) : b \in BOOLEAN, t \in ErrorTexts}

\* ------------------------------------------------------------ Theme Manager
\* app.js:128
ToggleLabelFor(theme) == IF theme = Dark THEN LabelWhenDark ELSE LabelWhenLight

\* the theme-sync request sent without the test of username
ThemeRequestsAlways(st, theme) ==
  << Request("/api/theme",
             [username |-> st["username"], theme |-> theme,
              token |-> st["token"]]) >>

\* app.js:131-140: the theme-sync request applyTheme sends, if any
ThemeRequests(st, theme) ==
  IF Truthy(st["username"])
  THEN << Request("/api/theme",
                  [username |-> st["username"], theme |-> theme,
                   token |-> st["token"]]) >>
  ELSE << >>

\* the stored theme read without its default
CurrentThemeNoDefault(st) == st["theme"]

\* app.js:146, 150
CurrentTheme(st) == OrElse(st["theme"], Light)

\* app.js:147
Flip(cur) == IF cur = Dark THEN Light ELSE Dark

\* app.js:126-141, on the requests `rs` already in flight
applyTheme(theme, rs) ==
  /\ dataTheme' = theme
  /\ toggleLabel' = ToggleLabelFor(theme)
  /\ store' = [store EXCEPT !["theme"] = theme]
  /\ reqs' = rs \o ThemeRequests(store, theme)

\* ------------------------------------------------------------ page loads
\* The tab loads a document: the old document's timers, pending
\* continuations and DOM are gone.  index.html runs app.js: initTheme
\* (app.js:149-152) at once, and the Session Guard's timer is armed
\* (app.js:13).  login.html runs login.js, which only registers a handler.
Load(target) ==
  /\ page' = target
  /\ nav' = NoNav
  /\ navTimers' = 0
  /\ loginMsg' = NoMsg
  /\ alertMsg' = Null
  /\ progress' = EmptyStr
  /\ results' = << >>
  /\ IF target = IndexPage
     THEN /\ applyTheme(CurrentTheme(store), << >>)
          /\ guardTimer' = "armed"
     ELSE /\ dataTheme' = Null
          /\ toggleLabel' = Null
          /\ guardTimer' = "none"
          /\ reqs' = << >>
          /\ UNCHANGED store

\* The user opens, or reloads, one of the two pages.
Visit(target) ==
  /\ events < MaxEvents
  /\ events' = events + 1
  /\ Load(target)
  /\ last' = [op |-> "visit", to |-> target]

\* The navigation the document asked for takes place.
Navigate ==
  /\ nav # NoNav
  /\ Load(nav.to)
  /\ last' = [op |-> "navigate", to |-> nav.to]
  /\ UNCHANGED events

\* ------------------------------------------------------------ Session Guard
\* the guard's test with its token operand left out
GuardRedirectsUsernameOnly(st) == ~Truthy(st["username"])

\* app.js:19
GuardRedirects(st) == ~Truthy(st["username"]) \/ ~Truthy(st["token"])

\* app.js:13-25, when the timer fires
GuardCheck ==
  /\ page = IndexPage
  /\ guardTimer = "armed"
  /\ guardTimer' = "fired"
  /\ nav' = IF GuardRedirects(store) THEN Href(LoginPage) ELSE nav
  /\ last' = [op |-> "guard"]
  /\ UNCHANGED <<store, page, navTimers, reqs, loginMsg, alertMsg, dataTheme,
                 toggleLabel, progress, results, events>>

\* app.js:145-148
ThemeToggleClick ==
  /\ page = IndexPage
  /\ events < MaxEvents
  /\ Len(reqs) < MaxInFlight
  /\ events' = events + 1
  /\ applyTheme(Flip(CurrentTheme(store)), reqs)
  /\ last' = [op |-> "themeToggle"]
  /\ UNCHANGED <<page, nav, guardTimer, navTimers, loginMsg, alertMsg,
                 progress, results>>

\* ------------------------------------------------------------ Login Flow
\* what the user may have typed into #username and #password
FormUsernames == {EmptyStr, <<Space>>, <<Space, "alice", Space>>}
FormPasswords == {EmptyStr, <<Space>>, <<"pw">>}

\* a field of the login response: missing, empty, or a string
LoginTokens == {Null, EmptyStr, <<"abc">>}
LoginUsernames == {Null, EmptyStr, <<"bob">>}
LoginData == [token : LoginTokens, username : LoginUsernames]

\* the token written without its placeholder
LoginStoredTokenNoFallback(data) == data.token

\* login.js:26
LoginStoredToken(data) == OrElse(data.token, MockToken)
\* login.js:27
LoginStoredUsername(data, submitted) == OrElse(data.username, submitted)

\* login.js:5-20: the click, up to the fetch
LoginClick(rawUser, rawPwd) ==
  /\ page = LoginPage
  /\ events < MaxEvents
  /\ Len(reqs) < MaxInFlight
  /\ events' = events + 1
  /\ LET username == Trim(rawUser)
         password == Trim(rawPwd)
     IN IF ~Truthy(username) \/ ~Truthy(password)
        THEN /\ loginMsg' = [text |-> MsgNeedCredentials, color |-> "red"]
             /\ reqs' = reqs
        ELSE /\ reqs' = Append(reqs, Request("/api/login",
                          [username |-> username, password |-> password]))
             /\ loginMsg' = loginMsg
  /\ last' = [op |-> "loginClick", user |-> rawUser, pwd |-> rawPwd]
  /\ UNCHANGED <<store, page, nav, guardTimer, navTimers, alertMsg, dataTheme,
                 toggleLabel, progress, results>>

\* what /api/login may answer
LoginAnswers ==
  PlainAnswers \cup {Json(b, d) : b \in BOOLEAN, d \in LoginData}

\* the attempt without its status check
LoginSucceededNoStatusCheck(answer) == ~answer.failed /\ answer.json

\* login.js:16-23: the attempt gets past the fetch, the status check and
\* the JSON parse
LoginSucceeded(answer) == ~answer.failed /\ answer.ok /\ answer.json

\* err.message of what login.js:16-23 throws on a failed attempt
LoginErrorText(answer) ==
  IF answer.failed THEN NetworkErrorText
  ELSE IF ~answer.ok THEN answer.text
  ELSE JsonErrorText

\* login.js:22-35: the continuation of the i-th request, a login
LoginResponse(i, answer) ==
  /\ page = LoginPage
  /\ i \in 1..Len(reqs)
  /\ reqs[i].ep = "/api/login"
  /\ reqs' = RemoveAt(reqs, i)
  /\ IF LoginSucceeded(answer)
     THEN /\ store' = [store EXCEPT
                 !["token"] = LoginStoredToken(answer.data),
                 !["username"] =
                     LoginStoredUsername(answer.data, reqs[i].body.username)]
          /\ loginMsg' = [text |-> MsgLoginOk, color |-> "green"]
          /\ navTimers' = navTimers + 1
     ELSE /\ loginMsg' = [text |-> LoginFailedPrefix \o LoginErrorText(answer),
                          color |-> "red"]
          /\ UNCHANGED <<store, navTimers>>
  /\ last' = [op |-> "loginResponse", req |-> reqs[i], answer |-> answer]
  /\ UNCHANGED <<page, nav, guardTimer, alertMsg, dataTheme, toggleLabel,
                 progress, results, events>>

\* login.js:31: one of the delayed navigations fires
LoginNavTimer ==
  /\ page = LoginPage
  /\ navTimers > 0
  /\ navTimers' = navTimers - 1
  /\ nav' = Href(IndexPage)
  /\ last' = [op |-> "loginNavTimer"]
  /\ UNCHANGED <<store, page, guardTimer, reqs, loginMsg, alertMsg, dataTheme,
                 toggleLabel, progress, results, events>>

\* ------------------------------------------------------------ Logout
\* app.js:157-167: the click, up to the fetch
LogoutClick ==
  /\ page = IndexPage
  /\ events < MaxEvents
  /\ Len(reqs) < MaxInFlight
  /\ events' = events + 1
  /\ reqs' = Append(reqs, Request("/api/logout",
                [username |-> store["username"], token |-> store["token"]]))
  /\ last' = [op |-> "logoutClick"]
  /\ UNCHANGED <<store, page, nav, guardTimer, navTimers, loginMsg, alertMsg,
                 dataTheme, toggleLabel, progress, results>>

\* what /api/logout may answer; the body is never read
LogoutAnswers == PlainAnswers

\* app.js:168-178: the continuation, whatever the fetch came back with
LogoutResponse(i, answer) ==
  /\ page = IndexPage
  /\ i \in 1..Len(reqs)
  /\ reqs[i].ep = "/api/logout"
  /\ reqs' = RemoveAt(reqs, i)
  /\ store' = ClearSession(store)
  /\ nav' = Replace(LoginPage)
  /\ last' = [op |-> "logoutResponse", req |-> reqs[i], answer |-> answer]
  /\ UNCHANGED <<page, guardTimer, navTimers, loginMsg, alertMsg, dataTheme,
                 toggleLabel, progress, results, events>>

\* ------------------------------------------------------------ Change Password
\* what a prompt() returns: null when cancelled, else the text typed
PromptPasswords == {Null, EmptyStr, <<"pw">>}

\* app.js:193
ChangePwdLoggedIn(st) == Truthy(st["username"])

\* app.js:189-209: the click, up to the fetch.  The second prompt is only
\* shown when the first returned something.
ChangePwdClick(oldPwd, newPwd) ==
  /\ page = IndexPage
  /\ events < MaxEvents
  /\ Len(reqs) < MaxInFlight
  /\ events' = events + 1
  /\ IF ~ChangePwdLoggedIn(store)
     THEN /\ alertMsg' = AlertLoginFirst
          /\ nav' = Href(LoginPage)
          /\ reqs' = reqs
          /\ oldPwd = Null /\ newPwd = Null
     ELSE /\ UNCHANGED <<alertMsg, nav>>
          /\ IF ~Truthy(oldPwd)
             THEN reqs' = reqs /\ newPwd = Null
             ELSE IF ~Truthy(newPwd)
             THEN reqs' = reqs
             ELSE reqs' = Append(reqs, Request("/api/change_password",
                     [username |-> store["username"], old_password |-> oldPwd,
                      new_password |-> newPwd, token |-> store["token"]]))
  /\ last' = [op |-> "changePwdClick", old |-> oldPwd, new |-> newPwd]
  /\ UNCHANGED <<store, page, guardTimer, navTimers, loginMsg, dataTheme,
                 toggleLabel, progress, results>>

\* a field of the change-password response body
ChangeErrors == {Null, EmptyStr, <<"wrong password">>}
ChangeMessages == {Null, <<"changed">>}
ChangeData == [error : ChangeErrors, message : ChangeMessages]

\* what /api/change_password may answer
ChangeAnswers ==
  PlainAnswers \cup {Json(b, d) : b \in BOOLEAN, d \in ChangeData}

\* app.js:205-212: the request gets past the fetch, the JSON parse and the
\* status check
ChangeSucceeded(answer) == ~answer.failed /\ answer.json /\ answer.ok

\* the thrown message without the server's error field
ChangeErrorTextGeneric(answer) ==
  IF answer.failed THEN NetworkErrorText
  ELSE IF ~answer.json THEN JsonErrorText
  ELSE GenericChangeError

\* err.message of what app.js:205-212 throws
ChangeErrorText(answer) ==
  IF answer.failed THEN NetworkErrorText
  ELSE IF ~answer.json THEN JsonErrorText
  ELSE OrElse(answer.data.error, GenericChangeError)

\* app.js:221
ChangeFailureAlert(answer) == ChangeFailedPrefix \o ChangeErrorText(answer)

\* app.js:211-222: the continuation
ChangePwdResponse(i, answer) ==
  /\ page = IndexPage
  /\ i \in 1..Len(reqs)
  /\ reqs[i].ep = "/api/change_password"
  /\ reqs' = RemoveAt(reqs, i)
  /\ IF ChangeSucceeded(answer)
     THEN /\ alertMsg' = OrElse(answer.data.message, GenericChangeOk)
          /\ store' = ClearSession(store)
          /\ nav' = Replace(LoginPage)
     ELSE /\ alertMsg' = ChangeFailureAlert(answer)
          /\ UNCHANGED <<store, nav>>
  /\ last' = [op |-> "changePwdResponse", req |-> reqs[i], answer |-> answer]
  /\ UNCHANGED <<page, guardTimer, navTimers, loginMsg, dataTheme,
                 toggleLabel, progress, results, events>>

\* app.js:139: the theme-sync request settles; a failure is only logged
ThemeAnswers == PlainAnswers

ThemeResponse(i, answer) ==
  /\ page = IndexPage
  /\ i \in 1..Len(reqs)
  /\ reqs[i].ep = "/api/theme"
  /\ reqs' = RemoveAt(reqs, i)
  /\ last' = [op |-> "themeResponse", req |-> reqs[i], answer |-> answer]
  /\ UNCHANGED <<store, page, nav, guardTimer, navTimers, loginMsg, alertMsg,
                 dataTheme, toggleLabel, progress, results, events>>

\* ------------------------------------------------------------ Detection Flow
\* app.js:37
AlertNeedSource == <<"please enter the contract source!">>
\* app.js:39
ProgressDetecting == <<"detecting...">>
\* app.js:54
ProgressDone == <<"detection finished">>
\* app.js:56
DetectFailedPrefix == <<"detection failed: ">>

RECURSIVE Pow10(_)
Pow10(n) == IF n = 0 THEN 1 ELSE 10 * Pow10(n - 1)

\* Numbers are kept as integers scaled by 10^MaxThresholdLen, enough for
\* every decimal the threshold input can hold; NaN is its own value.
Scale == Pow10(MaxThresholdLen)
NaN == [nan |-> TRUE, scaled |-> 0]
Num(scaled) == [nan |-> FALSE, scaled |-> scaled]
\* the literal 0.5 of app.js:47, and ToString(0.5)
Half == Num(5 * Pow10(MaxThresholdLen - 1))
HalfText == <<"0", ".", "5">>

Digits == {"0", "5"}
DigitValue(c) == IF c = "5" THEN 5 ELSE 0

\* the longest prefix of s made of digits
RECURSIVE DigitPrefix(_)
DigitPrefix(s) ==
  IF s # <<>> /\ Head(s) \in Digits
  THEN <<Head(s)>> \o DigitPrefix(Tail(s))
  ELSE <<>>

\* value of a digit string read as an integer
RECURSIVE DigitsValue(_)
DigitsValue(ds) ==
  IF ds = <<>> THEN 0
  ELSE 10 * DigitsValue(SubSeq(ds, 1, Len(ds) - 1)) + DigitValue(ds[Len(ds)])

\* parseFloat on a string without sign or exponent: leading white space is
\* skipped, the longest prefix that is a decimal literal is the value, and
\* there is no value (NaN) when no prefix is one.
parseFloat(str) ==
  LET s == TrimStart(str)
      int == DigitPrefix(s)
      rest == SubSeq(s, Len(int) + 1, Len(s))
      frac == IF rest # <<>> /\ Head(rest) = "." THEN DigitPrefix(Tail(rest))
              ELSE <<>>
  IN IF int = <<>> /\ frac = <<>> THEN NaN
     ELSE Num(DigitsValue(int) * Scale
              + DigitsValue(frac) * Pow10(MaxThresholdLen - Len(frac)))

\* JSON.stringify of a number: NaN is written as null
JsonNull == [kind |-> "null"]
JsonNumber(n) ==
  IF n.nan THEN JsonNull ELSE [kind |-> "number", scaled |-> n.scaled]

\* app.js:47: thresholdInput.value || 0.5, which parseFloat turns to a string
ThresholdArgument(value) == IF Truthy(value) THEN value ELSE HalfText

\* app.js:45-48, as JSON.stringify writes it
PredictBody(text, thresholdValue) ==
  [text |-> text,
   threshold |-> JsonNumber(parseFloat(ThresholdArgument(thresholdValue)))]

\* app.js:35-49: the click, up to the fetch
PredictClick(rawText, thresholdValue) ==
  /\ page = IndexPage
  /\ events < MaxEvents
  /\ Len(reqs) < MaxInFlight
  /\ events' = events + 1
  /\ LET text == Trim(rawText)
     IN IF ~Truthy(text)
        THEN /\ alertMsg' = AlertNeedSource
             /\ UNCHANGED <<results, progress, reqs>>
        ELSE /\ results' = << >>
             /\ progress' = ProgressDetecting
             /\ reqs' = Append(reqs, Request("/api/predict",
                                             PredictBody(text, thresholdValue)))
             /\ UNCHANGED alertMsg
  /\ last' = [op |-> "predictClick", text |-> rawText,
              threshold |-> thresholdValue]
  /\ UNCHANGED <<store, page, nav, guardTimer, navTimers, loginMsg, dataTheme,
                 toggleLabel>>

\* ------------------------------------------------------------ Result Renderer
Colon == ":"
Amp == "&"
Lt == "<"
Gt == ">"
Quot == "\""
Apos == "'"

\* String.prototype.replace with a /c/g pattern
RECURSIVE ReplaceAll(_, _, _)
ReplaceAll(s, c, by) ==
  IF s = <<>> THEN <<>>
  ELSE (IF Head(s) = c THEN by ELSE <<Head(s)>>) \o ReplaceAll(Tail(s), c, by)

EntAmp == <<"&", "a", "m", "p", ";">>
EntLt == <<"&", "l", "t", ";">>
EntGt == <<"&", "g", "t", ";">>
EntQuot == <<"&", "q", "u", "o", "t", ";">>
EntApos == <<"&", "#", "0", "3", "9", ";">>

\* String.prototype.replace with a pattern that lacks the g flag
RECURSIVE ReplaceFirst(_, _, _)
ReplaceFirst(s, c, by) ==
  IF s = <<>> THEN <<>>
  ELSE IF Head(s) = c THEN by \o Tail(s)
  ELSE <<Head(s)>> \o ReplaceFirst(Tail(s), c, by)

\* escapeHtml with patterns that lack the g flag
escapeHtmlFirstOnly(unsafe) ==
  ReplaceFirst(ReplaceFirst(ReplaceFirst(ReplaceFirst(ReplaceFirst(unsafe,
    Amp, EntAmp), Lt, EntLt), Gt, EntGt), Quot, EntQuot), Apos, EntApos)

\* app.js:61-68
escapeHtml(unsafe) ==
  ReplaceAll(ReplaceAll(ReplaceAll(ReplaceAll(ReplaceAll(unsafe,
    Amp, EntAmp), Lt, EntLt), Gt, EntGt), Quot, EntQuot), Apos, EntApos)

\* Where /:(.+)/ first matches in s: the first colon followed by a character
\* that is not a line terminator; 0 when there is none.
FirstMatch(s) ==
  LET hits == {i \in 1..(Len(s) - 1) :
                 s[i] = Colon /\ ~IsLineTerminator(s[i + 1])}
  IN IF hits = {} THEN 0 ELSE CHOOSE i \in hits : \A j \in hits : i <= j

\* the longest prefix of s without a line terminator: what .+ takes
RECURSIVE LinePrefix(_)
LinePrefix(s) ==
  IF s # <<>> /\ ~IsLineTerminator(Head(s))
  THEN <<Head(s)>> \o LinePrefix(Tail(s))
  ELSE <<>>

\* app.js:80: parts[0] and parts[1] of label.split(/:(.+)/); parts[1] is
\* undefined when the pattern matches nowhere
SplitLabel(label) ==
  LET m == FirstMatch(label)
  IN IF m = 0
     THEN [head |-> label, capture |-> Null]
     ELSE [head |-> SubSeq(label, 1, m - 1),
           capture |-> LinePrefix(SubSeq(label, m + 1, Len(label)))]

\* the title without its trim
LabelTitleUntrimmed(label) ==
  LET p == SplitLabel(label).head IN IF Truthy(p) THEN p ELSE EmptyStr

\* app.js:81
LabelTitle(label) ==
  LET p == SplitLabel(label).head IN IF Truthy(p) THEN Trim(p) ELSE EmptyStr
\* app.js:82
LabelDesc(label) ==
  LET p == SplitLabel(label).capture IN IF Truthy(p) THEN Trim(p) ELSE EmptyStr

\* app.js:84-94: the card of one label.  titleHtml is the content written
\* into the vuln-title element; hasDesc tells whether a vuln-desc element is
\* written, and descHtml is its content.
Card(label) ==
  LET safeTitle == escapeHtml(LabelTitle(label))
      safeDesc == escapeHtml(LabelDesc(label))
  IN [className |-> "card", titleHtml |-> safeTitle,
      hasDesc |-> Truthy(safeDesc), descHtml |-> safeDesc]

\* app.js:74
NoFindingsNotice ==
  [className |-> "small",
   titleHtml |-> <<"no vulnerability above the threshold">>,
   hasDesc |-> FALSE, descHtml |-> EmptyStr]

\* app.js:72: labels defaults to [] when the body has none
LabelsOf(data) == IF "labels" \in DOMAIN data THEN data.labels ELSE << >>

\* the renderer without its notice
showResultsCardsOnly(data) ==
  [i \in 1..Len(LabelsOf(data)) |-> Card(LabelsOf(data)[i])]

\* app.js:70-98: the children of #results when showResults returns
showResults(data) ==
  LET labels == LabelsOf(data)
  IN IF Len(labels) = 0
     THEN << NoFindingsNotice >>
     ELSE [i \in 1..Len(labels) |-> Card(labels[i])]

\* app.js:42-52: the request gets past the fetch, the status check and
\* the JSON parse
PredictSucceeded(answer) == ~answer.failed /\ answer.ok /\ answer.json

\* err.message of what app.js:42-52, and app.js:112-117, throw
FetchErrorText(answer) ==
  IF answer.failed THEN NetworkErrorText
  ELSE IF ~answer.ok THEN answer.text
  ELSE JsonErrorText

\* app.js:51-57: the continuation of the i-th request, a predict
PredictResponse(i, answer) ==
  /\ page = IndexPage
  /\ i \in 1..Len(reqs)
  /\ reqs[i].ep = "/api/predict"
  /\ reqs' = RemoveAt(reqs, i)
  /\ IF PredictSucceeded(answer)
     THEN /\ results' = showResults(answer.data)
          /\ progress' = ProgressDone
     ELSE /\ progress' = DetectFailedPrefix \o FetchErrorText(answer)
          /\ UNCHANGED results
  /\ last' = [op |-> "predictResponse", req |-> reqs[i], answer |-> answer]
  /\ UNCHANGED <<store, page, nav, guardTimer, navTimers, loginMsg, alertMsg,
                 dataTheme, toggleLabel, events>>

\* ------------------------------------------------------------ Reload Action
\* app.js:110
ProgressReloading == <<"reloading...">>
\* app.js:118
AlertReloaded == <<"model reloaded">>
\* app.js:119
ProgressSwitched == <<"model switched">>
\* app.js:121
ReloadFailedPrefix == <<"switch failed: ">>

\* what a prompt() for a path returns: null when cancelled
PromptPaths == {Null, EmptyStr, <<"/models/a">>}

\* the payload with both keys always written
ReloadPayloadAllKeys(adapter, base) ==
  [adapter_path |-> adapter, base_path |-> base]

\* app.js:107-109: the payload object, a key only where the prompt
\* returned a non-empty string
ReloadPayload(adapter, base) ==
  LET given == [adapter_path |-> adapter, base_path |-> base]
  IN [k \in {key \in DOMAIN given : Truthy(given[key])} |-> given[k]]

\* app.js:104-116: the click, up to the fetch
ReloadClick(adapter, base) ==
  /\ page = IndexPage
  /\ events < MaxEvents
  /\ Len(reqs) < MaxInFlight
  /\ events' = events + 1
  /\ progress' = ProgressReloading
  /\ reqs' = Append(reqs, Request("/api/reload", ReloadPayload(adapter, base)))
  /\ last' = [op |-> "reloadClick", adapter |-> adapter, base |-> base]
  /\ UNCHANGED <<store, page, nav, guardTimer, navTimers, loginMsg, alertMsg,
                 dataTheme, toggleLabel, results>>

\* what /api/reload may answer; a success body is never read
ReloadAnswers == PlainAnswers

\* app.js:112-117: the request gets past the fetch and the status check
ReloadSucceeded(answer) == ~answer.failed /\ answer.ok

\* app.js:117-122: the continuation
ReloadResponse(i, answer) ==
  /\ page = IndexPage
  /\ i \in 1..Len(reqs)
  /\ reqs[i].ep = "/api/reload"
  /\ reqs' = RemoveAt(reqs, i)
  /\ IF ReloadSucceeded(answer)
     THEN /\ alertMsg' = AlertReloaded
          /\ progress' = ProgressSwitched
     ELSE /\ progress' = ReloadFailedPrefix \o FetchErrorText(answer)
          /\ UNCHANGED alertMsg
  /\ last' = [op |-> "reloadResponse", req |-> reqs[i], answer |-> answer]
  /\ UNCHANGED <<store, page, nav, guardTimer, navTimers, loginMsg, dataTheme,
                 toggleLabel, results, events>>

\* ------------------------------------------------------------ inputs
\* All strings over `chars` of at most n characters.
RECURSIVE StringsUpTo(_, _)
StringsUpTo(chars, n) ==
  IF n = 0 THEN {<<>>}
  ELSE LET shorter == StringsUpTo(chars, n - 1)
       IN shorter \cup {Append(s, c) : s \in shorter, c \in chars}

\* the characters a label is made of: the colon, white space, a line
\* break, the five characters escapeHtml rewrites, and a letter
LabelChars == {Colon, Space, LineFeed, Amp, Lt, Gt, Quot, Apos, "a"}
AllLabels == StringsUpTo(LabelChars, MaxLabelLen)

\* the characters typed into the threshold input
ThresholdChars == {"0", "5", ".", "x", Space}
AllThresholds == StringsUpTo(ThresholdChars, MaxThresholdLen)

\* the inputs of the whole-application specification
SourceTexts == {EmptyStr, <<Space>>, <<"contract C {}">>}
SomeThresholds == {EmptyStr, <<"0", ".", "5">>}
SomeLabelLists ==
  { << >>, << <<"a", Colon, Space, "a">> >>, << <<"a">>, <<Lt, Colon, "a">> >> }
PredictData(labelLists) ==
  {[labels |-> ls, probs |-> << >>] : ls \in labelLists} \cup {[probs |-> << >>]}
PredictAnswers(labelLists) ==
  PlainAnswers \cup {Json(TRUE, d) : d \in PredictData(labelLists)}

\* ------------------------------------------------------------ specifications
\* What localStorage may hold when the tab is opened: each key absent, or a
\* value the application writes (login.js:26-27 never writes an empty one).
StoredUsernames == {Null, <<"alice">>}
StoredTokens == {Null, <<"abc">>}
StoredThemes == {Null, Light, Dark}
AnyStores ==
  {[k \in Keys |-> CASE k = "username" -> u [] k = "token" -> t [] OTHER -> th] :
     u \in StoredUsernames, t \in StoredTokens, th \in StoredThemes}
\* the stores the application itself leaves behind: login.js:26-27 writes
\* username and token together, app.js:173-175 and 216-218 remove them
\* together
Stores == {st \in AnyStores : (st["username"] = Null) <=> (st["token"] = Null)}

\* a fresh tab, nothing loaded yet
InitTab ==
  /\ page = BlankPage
  /\ nav = NoNav
  /\ guardTimer = "none"
  /\ navTimers = 0
  /\ reqs = << >>
  /\ loginMsg = NoMsg
  /\ alertMsg = Null
  /\ dataTheme = Null
  /\ toggleLabel = Null
  /\ progress = EmptyStr
  /\ results = << >>
  /\ events = 0
  /\ last = [op |-> "none"]

Init == store \in Stores /\ InitTab

Timers == GuardCheck \/ LoginNavTimer

Clicks ==
  \/ \E u \in FormUsernames, p \in FormPasswords : LoginClick(u, p)
  \/ LogoutClick
  \/ \E o \in PromptPasswords, n \in PromptPasswords : ChangePwdClick(o, n)
  \/ ThemeToggleClick
  \/ \E t \in SourceTexts, th \in SomeThresholds : PredictClick(t, th)
  \/ \E a \in PromptPaths, b \in PromptPaths : ReloadClick(a, b)

Responses ==
  \E i \in 1..MaxInFlight :
    \/ \E a \in LoginAnswers : LoginResponse(i, a)
    \/ \E a \in LogoutAnswers : LogoutResponse(i, a)
    \/ \E a \in ChangeAnswers : ChangePwdResponse(i, a)
    \/ \E a \in ThemeAnswers : ThemeResponse(i, a)
    \/ \E a \in PredictAnswers(SomeLabelLists) : PredictResponse(i, a)
    \/ \E a \in ReloadAnswers : ReloadResponse(i, a)

Next ==
  \/ \E target \in {LoginPage, IndexPage} : Visit(target)
  \/ Navigate
  \/ Timers
  \/ Clicks
  \/ Responses

Spec == Init /\ [][Next]_vars

\* The same application opened on a store that may hold only one of
\* username and token.
InitAnyStore == store \in AnyStores /\ InitTab

SpecAnyStore == InitAnyStore /\ [][Next]_vars

\* What the browser's scheduling guarantees: a navigation the document asked
\* for takes place, and a timer that is armed fires.  Nothing guarantees that
\* the server ever answers a request (no fetch of app.js or login.js sets a
\* timeout or an abort signal), nor that the user ever clicks; so the
\* continuations after an await, which run when the answer is there, and the
\* clicks get no fairness.
SpecLive ==
  /\ Init
  /\ [][Next]_vars
  /\ WF_vars(Navigate)
  /\ WF_vars(GuardCheck)
  /\ WF_vars(LoginNavTimer)

\* ------------------------------------------------------------ the renderer alone
\* index.html is loaded and signed in, the Session Guard has passed, and
\* one predict request awaits its answer; no user event follows.
SignedIn ==
  [k \in Keys |-> CASE k = "username" -> <<"alice">>
                    [] k = "token" -> <<"abc">>
                    [] OTHER -> Light]

InitLoadedIndex ==
  /\ store = SignedIn
  /\ page = IndexPage
  /\ nav = NoNav
  /\ guardTimer = "fired"
  /\ navTimers = 0
  /\ loginMsg = NoMsg
  /\ alertMsg = Null
  /\ dataTheme = Light
  /\ toggleLabel = LabelWhenLight
  /\ results = << >>

InitRender ==
  /\ InitLoadedIndex
  /\ reqs = << Request("/api/predict", PredictBody(<<"contract C {}">>, EmptyStr)) >>
  /\ progress = ProgressDetecting
  /\ events = MaxEvents
  /\ last = [op |-> "predictClick", text |-> <<"contract C {}">>,
             threshold |-> EmptyStr]

\* every list of at most one label
AllLabelLists == {<< >>} \cup {<<l>> : l \in AllLabels}

\* what /api/predict may answer the request in flight
RenderAnswers == PredictAnswers(AllLabelLists)

\* the request in flight is answered
NextRender ==
  /\ reqs # << >>
  /\ \E a \in RenderAnswers : PredictResponse(1, a)

SpecRender == InitRender /\ [][NextRender]_vars

\* ------------------------------------------------------------ the threshold alone
\* index.html is loaded and signed in, nothing is in flight, and one click
\* on the detect button follows, with any text in the threshold input.
InitThreshold ==
  /\ InitLoadedIndex
  /\ reqs = << >>
  /\ progress = EmptyStr
  /\ events = MaxEvents - 1
  /\ last = [op |-> "guard"]

NextThreshold ==
  \E t \in SourceTexts, th \in AllThresholds : PredictClick(t, th)

SpecThreshold == InitThreshold /\ [][NextThreshold]_vars

\* ------------------------------------------------------------ properties
Absent(k) == store[k] = Null
Supplied(v) == v # Null
NonEmpty(v) == v # Null /\ v # EmptyStr

\* the request sent last
Newest == reqs[Len(reqs)]

\* some request to `endpoint` awaits its answer
InFlight(endpoint) == \E i \in 1..Len(reqs) : reqs[i].ep = endpoint

\* the step is the Session Guard's timer firing
GuardFires == guardTimer = "armed" /\ guardTimer' = "fired"

\* C1: when the Session Guard's delayed check fires, it asks for
\* /login.html if and only if username or token is absent from
\* localStorage; with both present it asks for nothing and changes nothing.
C1_GuardRedirectsIffAbsent ==
  [][GuardFires =>
       /\ (nav' = Href(LoginPage)) <=> (Absent("username") \/ Absent("token"))
       /\ (~Absent("username") /\ ~Absent("token")) =>
            UNCHANGED <<store, page, nav, navTimers, reqs, loginMsg, alertMsg,
                        dataTheme, toggleLabel, progress, results, events>>
    ]_vars

\* the guard has fired on a store with a username and no token, and redirected
C1_Witness ==
  /\ last.op = "guard"
  /\ ~Absent("username")
  /\ Absent("token")
  /\ nav = Href(LoginPage)

\* C2: whatever the logout notification came back with (network error,
\* non-success status, success), when the logout handler finishes,
\* username, token and theme are absent and the page is being replaced by
\* /login.html.
C2_LogoutAlwaysClears ==
  last.op = "logoutResponse" =>
    /\ \A k \in Keys : Absent(k)
    /\ nav = Replace(LoginPage)

\* the notification of a signed-in user failed on the network, and the
\* handler has cleared the store and replaced the page
C2_Witness ==
  /\ last.op = "logoutResponse"
  /\ last.answer.failed
  /\ Supplied(last.req.body.username)
  /\ \A k \in Keys : Absent(k)
  /\ nav = Replace(LoginPage)

\* the handler step answered a change-password request with a non-success
\* status and a JSON body
ChangeRejected(l) ==
  /\ l.op = "changePwdResponse"
  /\ ~l.answer.failed
  /\ l.answer.json
  /\ ~l.answer.ok

\* C3 as stated: on a non-success response with body {error: E}, the
\* message displayed equals E exactly.
C3_Original ==
  (ChangeRejected(last) /\ Supplied(last.answer.data.error)) =>
    alertMsg = last.answer.data.error

\* C3, amended: on a non-success response with body {error: E}, E not
\* empty, the alert shows the fixed failure prefix followed by E; when the
\* error field is missing or empty it shows the prefix followed by the
\* generic message; in both cases username, token and theme are unchanged
\* and no navigation is asked for.
C3_FailureAlert ==
  [][ChangeRejected(last') =>
       /\ alertMsg' = ChangeFailedPrefix \o
            (IF NonEmpty(last'.answer.data.error)
             THEN last'.answer.data.error
             ELSE GenericChangeError)
       /\ store' = store
       /\ nav' = nav
    ]_vars

\* a signed-in user's request was rejected with {error: "wrong password"}
C3_Witness ==
  /\ ChangeRejected(last)
  /\ last.answer.data.error = <<"wrong password">>
  /\ alertMsg = ChangeFailedPrefix \o <<"wrong password">>
  /\ ~Absent("username")
  /\ nav = NoNav

\* the handler step answered a login request with a success status and a
\* JSON body
LoginAccepted(l) ==
  /\ l.op = "loginResponse"
  /\ ~l.answer.failed
  /\ l.answer.ok
  /\ l.answer.json

\* C4 as stated: after a successful login response the stored token is the
\* response's token when it supplies one and "mock-token" otherwise, and
\* the stored username is the response's when supplied and the submitted
\* one otherwise.
C4_Original ==
  LoginAccepted(last) =>
    /\ store["token"] = (IF Supplied(last.answer.data.token)
                         THEN last.answer.data.token ELSE MockToken)
    /\ store["username"] = (IF Supplied(last.answer.data.username)
                            THEN last.answer.data.username
                            ELSE last.req.body.username)

\* C4, amended: after a successful login response the stored token is the
\* response's token when it supplies a non-empty one and "mock-token"
\* otherwise (a missing or an empty token), and the stored username is the
\* response's when it is non-empty and the submitted, trimmed username
\* otherwise; the username a login request carries is the trimmed form value.
C4_LoginStores ==
  /\ LoginAccepted(last) =>
       /\ store["token"] = (IF NonEmpty(last.answer.data.token)
                            THEN last.answer.data.token ELSE MockToken)
       /\ store["username"] = (IF NonEmpty(last.answer.data.username)
                               THEN last.answer.data.username
                               ELSE last.req.body.username)
  /\ \A i \in 1..Len(reqs) :
       reqs[i].ep = "/api/login" =>
         LET u == reqs[i].body.username
         IN u # EmptyStr /\ ~IsWhiteSpace(u[1]) /\ ~IsWhiteSpace(u[Len(u)])

\* the response supplied neither field: the placeholder and the submitted
\* username are stored
C4_Witness ==
  /\ LoginAccepted(last)
  /\ last.answer.data.token = Null
  /\ last.answer.data.username = Null
  /\ store["token"] = MockToken
  /\ store["username"] = <<"alice">>

\* the handler step answered a predict request with a success status and
\* a JSON body
PredictAccepted(l) ==
  /\ l.op = "predictResponse"
  /\ ~l.answer.failed
  /\ l.answer.ok
  /\ l.answer.json

\* the labels of the answer the handler step rendered
RenderedLabels == LabelsOf(last.answer.data)

HasColon(label) == \E i \in 1..Len(label) : label[i] = Colon
FirstColon(label) ==
  CHOOSE i \in 1..Len(label) :
    label[i] = Colon /\ \A j \in 1..(i - 1) : label[j] # Colon
BeforeFirstColon(label) == SubSeq(label, 1, FirstColon(label) - 1)
AfterFirstColon(label) == SubSeq(label, FirstColon(label) + 1, Len(label))

\* C5: for every label with at least one colon, showResults splits at the
\* first colon only: the title is the trimmed text before it and the
\* description the trimmed text after it, later colons included, also when
\* the first colon is the last character or is followed by a line break.
C5_SplitAtFirstColon ==
  PredictAccepted(last) =>
    \A i \in 1..Len(RenderedLabels) :
      HasColon(RenderedLabels[i]) =>
        /\ results[i].titleHtml =
             escapeHtml(Trim(BeforeFirstColon(RenderedLabels[i])))
        /\ results[i].descHtml =
             escapeHtml(Trim(AfterFirstColon(RenderedLabels[i])))

RawChars == {Lt, Gt, Quot, Apos}
Entities == {EntAmp, EntLt, EntGt, EntQuot, EntApos}

\* html has none of < > " ' and every & of it starts an entity
WellEscaped(html) ==
  \A i \in 1..Len(html) :
    /\ html[i] \notin RawChars
    /\ html[i] = Amp =>
         \E e \in Entities :
           /\ i + Len(e) - 1 <= Len(html)
           /\ SubSeq(html, i, i + Len(e) - 1) = e

EntityOf(c) ==
  CASE c = Amp -> EntAmp
    [] c = Lt -> EntLt
    [] c = Gt -> EntGt
    [] c = Quot -> EntQuot
    [] c = Apos -> EntApos
    [] OTHER -> <<c>>

\* text with each of the five characters written as its entity
RECURSIVE EachAsEntity(_)
EachAsEntity(text) ==
  IF text = <<>> THEN <<>>
  ELSE EntityOf(Head(text)) \o EachAsEntity(Tail(text))

\* C6: for every label the server supplies, the title and description text
\* showResults inserts hold no raw < > " ' and no & other than the start of
\* an entity: each of the five characters of the title and of the
\* description appears as its entity, and only so.
C6_RenderedTextEscaped ==
  PredictAccepted(last) =>
    \A i \in 1..Len(RenderedLabels) :
      /\ WellEscaped(results[i].titleHtml)
      /\ WellEscaped(results[i].descHtml)
      /\ results[i].titleHtml = EachAsEntity(LabelTitle(RenderedLabels[i]))
      /\ results[i].descHtml = EachAsEntity(LabelDesc(RenderedLabels[i]))

\* the label <<:& has been rendered: two entities in the title, one in
\* the description
C6_Witness ==
  /\ PredictAccepted(last)
  /\ RenderedLabels = << <<Lt, Lt, Colon, Amp>> >>
  /\ results[1].titleHtml = EntLt \o EntLt
  /\ results[1].descHtml = EntAmp

\* the handler step was a detect click that sent a request
PredictSent(l) == l.op = "predictClick" /\ InFlight("/api/predict")

\* C7: the predict request's threshold is the number parsed from the
\* threshold input, and 0.5 whenever the input is empty or cannot be parsed
\* as a number.
C7_ThresholdDefault ==
  PredictSent(last) =>
    Newest.body.threshold =
      (IF last.threshold = EmptyStr \/ parseFloat(last.threshold).nan
       THEN JsonNumber(Half)
       ELSE JsonNumber(parseFloat(last.threshold)))

\* exactly one of username and token is in the store
OneOnly(st) == (st["username"] = Null) # (st["token"] = Null)
\* the store with neither
WithNeither(st) == [st EXCEPT !["username"] = Null, !["token"] = Null]

\* C8: every flow treats a store holding only one of username and token as
\* it treats a store holding neither: the Session Guard, Change Password
\* and the Theme Manager take the branch, and send the requests, they
\* would with neither.
C8_OneFieldAsNone ==
  OneOnly(store) =>
    /\ last.op = "guard" =>
         (nav = Href(LoginPage)) = GuardRedirects(WithNeither(store))
    /\ last.op = "changePwdClick" =>
         /\ (alertMsg = AlertLoginFirst /\ nav = Href(LoginPage))
              = ~ChangePwdLoggedIn(WithNeither(store))
         /\ InFlight("/api/change_password")
              => ChangePwdLoggedIn(WithNeither(store))
    /\ last.op = "themeToggle" =>
         (InFlight("/api/theme")
            = (ThemeRequests(WithNeither(store), store["theme"]) # << >>))

\* the handler step answered a login request with a failure: the network
\* failed, the status was not a success, or the body was not JSON
LoginFailed(l) ==
  /\ l.op = "loginResponse"
  /\ (l.answer.failed \/ ~l.answer.ok \/ ~l.answer.json)

\* C9: when a login attempt fails (network error, non-success status, or a
\* success body that is not JSON), its handler leaves username, token and
\* the rest of the store as they were and schedules no navigation.
C9_FailedLoginFrame ==
  [][LoginFailed(last') =>
       /\ store' = store
       /\ navTimers' = navTimers
       /\ nav' = nav
    ]_vars

\* a success response with a body that is not JSON has been handled: the
\* error is shown, nothing is stored, no navigation is scheduled
C9_Witness ==
  /\ LoginFailed(last)
  /\ last.answer.ok /\ ~last.answer.json
  /\ loginMsg = [text |-> LoginFailedPrefix \o JsonErrorText, color |-> "red"]
  /\ \A k \in Keys : Absent(k)
  /\ navTimers = 0
  /\ nav = NoNav

\* the handler step was a reload click
ReloadSent(l) == l.op = "reloadClick"

\* C10: the reload request's body has the key adapter_path exactly when the
\* adapter prompt returned a non-empty string, and base_path exactly when
\* the base prompt did; a key that is there carries the string entered, and
\* an empty or cancelled prompt leaves its key out.
C10_ReloadOmitsEmpty ==
  ReloadSent(last) =>
    LET body == Newest.body
    IN /\ Newest.ep = "/api/reload"
       /\ ("adapter_path" \in DOMAIN body) <=> NonEmpty(last.adapter)
       /\ ("base_path" \in DOMAIN body) <=> NonEmpty(last.base)
       /\ "adapter_path" \in DOMAIN body => body["adapter_path"] = last.adapter
       /\ "base_path" \in DOMAIN body => body["base_path"] = last.base

\* only the adapter path was entered and the base prompt was cancelled: the
\* body is {adapter_path} alone
C10_Witness ==
  /\ ReloadSent(last)
  /\ last.adapter = <<"/models/a">>
  /\ last.base = Null
  /\ DOMAIN Newest.body = {"adapter_path"}

\* ------------------------------------------------------------ C11
\* a field that is empty once its white space is trimmed
Blank(raw) == \A i \in 1..Len(raw) : IsWhiteSpace(raw[i])

LoginRejected(l) ==
  /\ l.op = "loginClick"
  /\ Blank(l.user) \/ Blank(l.pwd)

\* C11: a login click whose username or password is empty after trimming
\* shows the inline error in red, sends no request (the requests in flight
\* are the ones there were) and leaves local storage as it was.
C11_EmptyFieldRejected ==
  [][LoginRejected(last') =>
       /\ loginMsg' = [text |-> MsgNeedCredentials, color |-> "red"]
       /\ reqs' = reqs
       /\ store' = store
       /\ nav' = nav /\ navTimers' = navTimers]_vars

\* a click with a user name of white space only and a password given
C11_Witness ==
  /\ last.op = "loginClick"
  /\ last.user = <<Space>>
  /\ last.pwd = <<"pw">>
  /\ loginMsg = [text |-> MsgNeedCredentials, color |-> "red"]
  /\ reqs = << >>

\* ------------------------------------------------------------ C12
\* C12: for every label without a colon, the card's title is the whole
\* trimmed label (each of the five characters as its entity) and the card
\* has no description element.
C12_NoColonLabel ==
  PredictAccepted(last) =>
    \A i \in 1..Len(RenderedLabels) :
      ~HasColon(RenderedLabels[i]) =>
        /\ results[i].className = "card"
        /\ results[i].titleHtml = EachAsEntity(Trim(RenderedLabels[i]))
        /\ ~results[i].hasDesc

\* the label " a<" has been rendered
C12_Witness ==
  /\ PredictAccepted(last)
  /\ RenderedLabels = << <<Space, "a", Lt>> >>
  /\ results[1].titleHtml = <<"a">> \o EntLt
  /\ ~results[1].hasDesc

\* ------------------------------------------------------------ C13
\* the answer rendered has no labels, or an empty list of them
NoLabels(l) ==
  /\ PredictAccepted(l)
  /\ "labels" \in DOMAIN l.answer.data => l.answer.data.labels = << >>

\* C13: when the labels of a rendered answer are empty or missing, the
\* results area holds exactly the one notice and no card, whatever it held
\* before the answer came.
C13_NoFindings ==
  [][NoLabels(last') =>
       /\ Len(results') = 1
       /\ results'[1] = NoFindingsNotice
       /\ \A i \in 1..Len(results') : results'[i].className # "card"]_vars

\* an answer without a labels field has been rendered
C13_Witness ==
  /\ PredictAccepted(last)
  /\ "labels" \notin DOMAIN last.answer.data
  /\ results = << NoFindingsNotice >>

\* ------------------------------------------------------------ C14
\* the three keys are gone from local storage
SessionCleared == Absent("username") /\ Absent("token") /\ Absent("theme")

\* a signed-in user has just clicked Log out on a page that has asked for
\* no navigation
LogoutClicked ==
  /\ last.op = "logoutClick"
  /\ ~Absent("username") /\ ~Absent("token")
  /\ nav = NoNav

\* C14: after every logout click the three keys are eventually cleared and
\* the page eventually becomes the login page, whatever becomes of the
\* notification request, also when it is never answered.  Stated of the
\* clicks of LogoutClicked, where the page is not already on its way out.
C14_LogoutCompletes ==
  /\ LogoutClicked ~> SessionCleared
  /\ LogoutClicked ~> (page = LoginPage)

\* ------------------------------------------------------------ C15
\* the handler step was the continuation of a predict request that failed,
\* and the status indicator shows its failure message
PredictFailed(l) ==
  /\ l.op = "predictResponse"
  /\ ~PredictAccepted(l)
  /\ progress = DetectFailedPrefix \o FetchErrorText(l.answer)

\* C15: whenever a predict request ends in failure, the results area is
\* empty at the moment the status indicator shows the failure message, in
\* every interleaving of detect clicks and answers.
C15_FailureShowsNoResults == PredictFailed(last) => results = << >>

\* ------------------------------------------------------------ C16
\* the handler step loaded index.html, which runs initTheme
IndexLoaded(l) == l.op \in {"visit", "navigate"} /\ l.to = IndexPage

\* C16: the stored theme, whenever present, is "light" or "dark", whatever
\* page loads, toggles, logins, logouts and password changes took place; and
\* an absent theme is read as "light": a page load finding none applies and
\* stores "light", a toggle finding none stores "dark".
C16_ThemeLightOrDark ==
  /\ [](Absent("theme") \/ store["theme"] \in {Light, Dark})
  /\ [][(Absent("theme") /\ IndexLoaded(last')) =>
          (store'["theme"] = Light /\ dataTheme' = Light)]_vars
  /\ [][(Absent("theme") /\ last'.op = "themeToggle") =>
          (store'["theme"] = Dark /\ dataTheme' = Dark)]_vars

\* the theme was removed by a logout and the toggle is clicked before the
\* login page has replaced the document
C16_Witness ==
  /\ last.op = "themeToggle"
  /\ nav = Replace(LoginPage)
  /\ Absent("username")
  /\ store["theme"] = Dark
  /\ dataTheme = Dark

\* ------------------------------------------------------------ C17
\* how many of the requests rs go to the theme-sync endpoint
ThemeCount(rs) == Cardinality({i \in 1..Len(rs) : rs[i].ep = "/api/theme"})

\* the handler step ran applyTheme: a load of index.html or a toggle
AppliesTheme(l) == IndexLoaded(l) \/ l.op = "themeToggle"

\* what the user is shown, and what is kept
ShownAndKept ==
  <<store, page, nav, loginMsg, alertMsg, dataTheme, toggleLabel, progress,
    results>>

\* C17: a step that runs applyTheme stores the theme it applies, and sends
\* one theme-sync request, carrying that theme, exactly when username is in
\* local storage at that moment (a load starts with no request of its
\* document in flight); no other step sends one, so that without a username
\* no loads and toggles ever send one; and the answer to a theme-sync
\* request, a failure included, changes neither local storage nor anything
\* shown.
C17_ThemeSync ==
  /\ [][AppliesTheme(last') =>
          /\ store'["theme"] = dataTheme'
          /\ dataTheme' \in {Light, Dark}
          /\ LET before == IF IndexLoaded(last') THEN << >> ELSE reqs
             IN IF Absent("username")
                THEN reqs' = before
                ELSE reqs' = Append(before, Request("/api/theme",
                               [username |-> store["username"],
                                theme |-> dataTheme',
                                token |-> store["token"]]))]_vars
  /\ [][~AppliesTheme(last') => ThemeCount(reqs') <= ThemeCount(reqs)]_vars
  /\ [][last'.op = "themeResponse" => UNCHANGED ShownAndKept]_vars

\* with no username stored, a toggle has stored the theme and sent nothing
C17_Witness ==
  /\ last.op = "themeToggle"
  /\ Absent("username")
  /\ nav = NoNav
  /\ store["theme"] = dataTheme
  /\ reqs = << >>

\* ------------------------------------------------------------ C18
ClickOps ==
  {"loginClick", "predictClick", "reloadClick", "logoutClick",
   "changePwdClick", "themeToggle"}
ResponseOps ==
  {"loginResponse", "predictResponse", "reloadResponse", "logoutResponse",
   "changePwdResponse", "themeResponse"}

\* rs is qs with at most one request added at its end
AtMostOneSent(qs, rs) ==
  \/ rs = qs
  \/ Len(rs) = Len(qs) + 1 /\ SubSeq(rs, 1, Len(qs)) = qs

\* rs is qs with the request r, one of qs, gone and nothing added
SettledOnly(qs, rs, r) ==
  \E i \in 1..Len(qs) :
    /\ qs[i] = r
    /\ rs = SubSeq(qs, 1, i - 1) \o SubSeq(qs, i + 1, Len(qs))

\* the failure message of the flow whose request just failed is what is
\* shown in #loginMsg (msg), the status line (status) or the alert (alert)
FailureReported(l, msg, status, alert) ==
  CASE l.op = "loginResponse" /\ ~LoginSucceeded(l.answer) ->
         msg = [text |-> LoginFailedPrefix \o LoginErrorText(l.answer),
                color |-> "red"]
    [] l.op = "predictResponse" /\ ~PredictSucceeded(l.answer) ->
         status = DetectFailedPrefix \o FetchErrorText(l.answer)
    [] l.op = "reloadResponse" /\ ~ReloadSucceeded(l.answer) ->
         status = ReloadFailedPrefix \o FetchErrorText(l.answer)
    [] l.op = "changePwdResponse" /\ ~ChangeSucceeded(l.answer) ->
         alert = ChangeFailureAlert(l.answer)
    [] OTHER -> TRUE

\* C18: no flow retries.  A click of any of the six kinds sends at most one
\* request; the step that handles a request's answer, a failure included,
\* takes that request out of flight, sends none, and on failure shows the
\* flow's failure message (logout and theme sync show nothing); the timers
\* send nothing.
C18_NoRetry ==
  /\ [][last'.op \in ClickOps => AtMostOneSent(reqs, reqs')]_vars
  /\ [][last'.op \in ResponseOps =>
          /\ SettledOnly(reqs, reqs', last'.req)
          /\ FailureReported(last', loginMsg', progress', alertMsg')]_vars
  /\ [][last'.op \in {"guard", "loginNavTimer"} => reqs' = reqs]_vars

\* a predict request has failed: its message is shown and nothing is in
\* flight any more
C18_Witness ==
  /\ last.op = "predictResponse"
  /\ ~PredictSucceeded(last.answer)
  /\ progress = DetectFailedPrefix \o FetchErrorText(last.answer)
  /\ reqs = << >>

\* ------------------------------------------------------------ C19
\* C19: from a store with username and token both present or both absent,
\* after every handler step username is present exactly when token is:
\* login writes both in its one step, logout and a successful password
\* change remove both in theirs, and no other step writes either.
C19_UsernameIffToken == Absent("username") <=> Absent("token")

\* the login that has just succeeded wrote both: the answer's username and,
\* the answer having no token, the placeholder
C19_Witness ==
  /\ LoginAccepted(last)
  /\ store["username"] = <<"bob">>
  /\ store["token"] = MockToken

====
